---- MODULE Spec2Model ----
(***************************************************************************)
(* FCMService of @zan-shop/push-notifications: the dispatch orchestrator   *)
(* (sendToDevice, sendToMultipleDevices, sendToTopic, validateToken), its  *)
(* message builders and its error classifier, run against a messaging      *)
(* collaborator whose send / sendEach calls resolve or reject.             *)
(*                                                                         *)
(* A JavaScript value that may be undefined is an option: <<>> is          *)
(* undefined and <<v>> is the value v.  An object is a record; a property  *)
(* whose value is undefined is left out of the record.                     *)
(***************************************************************************)
EXTENDS Integers, Sequences, FiniteSets, TLC

\* ------------------------------------------------------------------ bounds
\* Lists of up to MaxSmallLen recipients are enumerated exhaustively, with
\* every per-item reply the collaborator can give.
MaxSmallLen == 2
\* The longest recipient list fills MaxChunks chunks and one more element.
MaxChunks == 2

\* --------------------------------------------------------- JavaScript glue
None == <<>>

Some(v) == <<v>>

\* obj.name
Get(obj, name) == IF name \in DOMAIN obj THEN <<obj[name]>> ELSE None

\* obj?.name
OptGet(objOpt, name) == IF objOpt = None THEN None ELSE Get(objOpt[1], name)

\* truthiness of an optional string: undefined and '' are falsy
Truthy(opt) == opt # None /\ opt[1] # ""

\* opt || d, for an optional string
OrElse(opt, d) == IF Truthy(opt) THEN opt[1] ELSE d

EmptyObject == [x \in {} |-> 0]

\* { name: value }, nothing when the value is undefined
Prop(name, opt) == IF opt = None THEN EmptyObject ELSE [x \in {name} |-> opt[1]]

\* ...(opt && { name: opt })
SpreadIf(name, opt) == IF Truthy(opt) THEN [x \in {name} |-> opt[1]] ELSE EmptyObject

\* { ...f, ...g } for objects with disjoint keys
Merge(f, g) == [x \in DOMAIN f \cup DOMAIN g |-> IF x \in DOMAIN f THEN f[x] ELSE g[x]]

Min(a, b) == IF a < b THEN a ELSE b

\* slice with its end taken as inclusive
Slice_inclusiveEnd(s, from, to) == SubSeq(s, from + 1, Min(to + 1, Len(s)))

\* Array.prototype.slice(from, to) with 0-based from and exclusive to
Slice(s, from, to) == SubSeq(s, from + 1, Min(to, Len(s)))

\* ------------------------------------------------------------- FCMService
\* the constructor: this.dryRun = options.dryRun || false
ctorDryRun(options) == IF "dryRun" \in DOMAIN options THEN options.dryRun ELSE FALSE

\* const batchSize = 500
batchSize == 500

\* the list without the not-registered code
invalidTokenCodes_onlyInvalid == {"messaging/invalid-registration-token"}

invalidTokenCodes == {"messaging/invalid-registration-token",
                      "messaging/registration-token-not-registered"}

\* a classifier that falls back only when code or message is undefined (??)
parseError_keepsEmpty(error, token) ==
    LET code == IF OptGet(error, "code") = None THEN "unknown"
                ELSE OptGet(error, "code")[1]
        message == IF OptGet(error, "message") = None THEN "Unknown error occurred"
                   ELSE OptGet(error, "message")[1]
    IN  Merge([code |-> code, message |-> message], SpreadIf("token", token))

parseError(error, token) ==
    LET code == OrElse(OptGet(error, "code"), "unknown")
        message == OrElse(OptGet(error, "message"), "Unknown error occurred")
    IN  Merge([code |-> code, message |-> message], SpreadIf("token", token))

buildMessage(token, payload) ==
  Merge(
    [token |-> token,
     notification |-> Merge([title |-> payload.title, body |-> payload.body],
                            SpreadIf("imageUrl", Get(payload, "imageUrl"))),
     android |-> [priority |-> IF Get(payload, "priority") = Some("high")
                               THEN "high" ELSE "normal",
                  notification |-> Merge([sound |-> OrElse(Get(payload, "sound"), "default")],
                                         Prop("clickAction", Get(payload, "clickAction")))],
     apns |-> [payload |-> [aps |-> Merge(Prop("badge", Get(payload, "badge")),
                                          [sound |-> OrElse(Get(payload, "sound"), "default")])],
               fcmOptions |-> SpreadIf("imageUrl", Get(payload, "imageUrl"))]],
    Prop("data", Get(payload, "data")))

\* a topic message built without badge and clickAction
buildTopicMessage_dropsBadgeAndClick(topic, payload) ==
  Merge(
    [topic |-> topic,
     notification |-> Merge([title |-> payload.title, body |-> payload.body],
                            SpreadIf("imageUrl", Get(payload, "imageUrl"))),
     android |-> [priority |-> IF Get(payload, "priority") = Some("high")
                               THEN "high" ELSE "normal",
                  notification |-> [sound |-> OrElse(Get(payload, "sound"), "default")]],
     apns |-> [payload |-> [aps |-> [sound |-> OrElse(Get(payload, "sound"), "default")]]]],
    Prop("data", Get(payload, "data")))

buildTopicMessage(topic, payload) ==
  Merge(
    [topic |-> topic,
     notification |-> Merge([title |-> payload.title, body |-> payload.body],
                            SpreadIf("imageUrl", Get(payload, "imageUrl"))),
     android |-> [priority |-> IF Get(payload, "priority") = Some("high")
                               THEN "high" ELSE "normal",
                  notification |-> Merge([sound |-> OrElse(Get(payload, "sound"), "default")],
                                         Prop("clickAction", Get(payload, "clickAction")))],
     apns |-> [payload |-> [aps |-> Merge(Prop("badge", Get(payload, "badge")),
                                          [sound |-> OrElse(Get(payload, "sound"), "default")])]]],
    Prop("data", Get(payload, "data")))

\* what an async method hands its caller: a value, or a raised error
Returned(v) == [kind |-> "return", value |-> v]

Raised(e) == [kind |-> "throw", error |-> e]

\* sendToDevice, the try block after messaging.send resolved
sendToDeviceTry(messageId) == Returned([success |-> TRUE, messageId |-> messageId])

\* a catch block that reads error.code without the ?. guard
sendToDeviceCatch_unguarded(error, token) ==
    IF error = None
    THEN Raised("TypeError: Cannot read properties of undefined (reading 'code')")
    ELSE Returned([success |-> FALSE, error |-> parseError(error, Some(token))])

\* sendToDevice, the catch block
sendToDeviceCatch(error, token) ==
    Returned([success |-> FALSE, error |-> parseError(error, Some(token))])

\* sendToTopic, the try block after messaging.send resolved
sendToTopicTry(messageId) == Returned([success |-> TRUE, messageId |-> messageId])

\* a catch block copied from sendToDevice: the topic passed as the token
sendToTopicCatch_passesTopic(error, topic) ==
    Returned([success |-> FALSE, error |-> parseError(error, Some(topic))])

\* sendToTopic, the catch block
sendToTopicCatch(error, topic) ==
    Returned([success |-> FALSE, error |-> parseError(error, None)])

\* validateToken, the catch block
validateTokenCatch(error) ==
    LET code == OptGet(error, "code")
    IN  Returned(~(code # None /\ code[1] \in invalidTokenCodes))

\* a callback that reports an error only when the response carries one
mapResponse_errorIfGiven(resp, token) ==
    IF resp.success
    THEN Merge([success |-> TRUE], Prop("messageId", Get(resp, "messageId")))
    ELSE Merge([success |-> FALSE],
               IF Get(resp, "error") = None THEN EmptyObject
               ELSE [error |-> parseError(Get(resp, "error"), Some(token))])

\* sendBatch, the callback of response.responses.map
mapResponse(resp, token) ==
    IF resp.success
    THEN Merge([success |-> TRUE], Prop("messageId", Get(resp, "messageId")))
    ELSE [success |-> FALSE, error |-> parseError(Get(resp, "error"), Some(token))]

\* sendBatch, the try block after messaging.sendEach resolved
sendBatchTry(response, tokens) ==
    Returned([index \in 1..Len(response.responses) |->
                 mapResponse(response.responses[index], tokens[index])])

\* a catch block that answers a failed chunk with no results at all
sendBatchCatch_dropsTokens(error, tokens) == Returned(<<>>)

\* a catch block that classifies without the error it caught
sendBatchCatch_losesError(error, tokens) ==
    Returned([index \in 1..Len(tokens) |->
                 [success |-> FALSE, error |-> parseError(None, Some(tokens[index]))]])

\* sendBatch, the catch block
sendBatchCatch(error, tokens) ==
    Returned([index \in 1..Len(tokens) |->
                 [success |-> FALSE, error |-> parseError(error, Some(tokens[index]))]])

\* an early return that counts the empty call as one failure
emptyBatchResult_oneFailure == [successCount |-> 0, failureCount |-> 1, results |-> <<>>]

\* sendToMultipleDevices, the early return for an empty list
emptyBatchResult == [successCount |-> 0, failureCount |-> 0, results |-> <<>>]

\* results.filter((r) => r.success).length
countSuccess(results) == Cardinality({j \in 1..Len(results) : results[j].success})

\* sendToMultipleDevices, the return after the loop
batchResult(results) ==
    LET successCount == countSuccess(results)
        failureCount == Len(results) - successCount
    IN  [successCount |-> successCount, failureCount |-> failureCount, results |-> results]

\* ------------------------------------------------- callers and collaborator
Tokens == {"", "tokA", "tokB"}

Topics == {"promotions", "orders"}

Payloads ==
    {[title |-> "Hello", body |-> "World"],
     [title |-> "Order Shipped", body |-> "Your order #123 has been shipped!",
      data |-> [type |-> "shipment.created", orderId |-> "123"],
      imageUrl |-> "https://cdn.example/box.png", sound |-> "chime", badge |-> 3,
      clickAction |-> "/orders/123", priority |-> "high"],
     [title |-> "Sale", body |-> "Ends today", imageUrl |-> "", sound |-> "",
      badge |-> 0, priority |-> "normal"]}

\* all sequences over S of length n
RECURSIVE SeqsOfLen(_, _)
SeqsOfLen(S, n) ==
    IF n = 0 THEN {<<>>}
    ELSE {Append(s, x) : s \in SeqsOfLen(S, n - 1), x \in S}

SmallLists == UNION {SeqsOfLen(Tokens, n) : n \in 0..MaxSmallLen}

LargeLens == {batchSize - 1, batchSize, batchSize + 1,
              MaxChunks * batchSize, MaxChunks * batchSize + 1}

LargeList(n) == [j \in 1..n |-> "device-" \o ToString(j)]

TokenLists == SmallLists \cup {LargeList(n) : n \in LargeLens}

MessageIds == {"projects/zan/messages/0:1", "projects/zan/messages/0:2"}

\* error objects the collaborator reports: with and without code / message
ErrObjects ==
    {[code |-> "messaging/invalid-registration-token", message |-> "Invalid token"],
     [code |-> "messaging/registration-token-not-registered", message |-> "Not registered"],
     [code |-> "messaging/quota-exceeded", message |-> "Quota exceeded"],
     [code |-> "messaging/internal-error"],
     [message |-> "socket hang up"],
     [code |-> "", message |-> ""]}

\* what a rejected call or a failed item carries: an error object or nothing
RawErrors == {None} \cup {Some(e) : e \in ErrObjects}

TransportError == Some([code |-> "messaging/internal-error", message |-> "Internal error"])

\* one SendResponse of a BatchResponse
ItemResponses ==
    {[success |-> TRUE, messageId |-> id] : id \in {"projects/zan/messages/0:1"}}
    \cup {Merge([success |-> FALSE], Prop("error", e)) : e \in RawErrors}

\* the responses of long chunks follow one of these shapes
LargeShapes == {"allOk", "someFail"}

LargeItem(shape, j, message) ==
    IF shape = "someFail" /\ j % 3 = 0
    THEN [success |-> FALSE,
          error |-> IF j % 2 = 0
                    THEN [code |-> "messaging/registration-token-not-registered",
                          message |-> "Not registered"]
                    ELSE [message |-> "socket hang up"]]
    ELSE [success |-> TRUE, messageId |-> "projects/zan/messages/" \o message.token]

\* the BatchResponse values messaging.sendEach may resolve with for the
\* messages submitted: one SendResponse per message, in the order submitted
SendEachResponses(messages) ==
    IF Len(messages) <= MaxSmallLen
    THEN {[responses |-> rs] : rs \in SeqsOfLen(ItemResponses, Len(messages))}
    ELSE {[responses |-> [j \in 1..Len(messages) |-> LargeItem(shape, j, messages[j])]] :
             shape \in LargeShapes}

\* the errors messaging.sendEach may reject with for n messages
SendEachErrors(n) == IF n <= MaxSmallLen THEN RawErrors ELSE {None, TransportError}

Pending == [kind |-> "pending"]

Resolved(v) == [kind |-> "resolved", value |-> v]

Rejected(e) == [kind |-> "rejected", error |-> e]

\* -------------------------------------------------------------------- state
VARIABLES
    options,       \* the FCMServiceOptions the instance was constructed with
    dryRun,        \* this.dryRun
    op,            \* per invocation: the method running
    pc,            \* per invocation: where it is suspended
    target,        \* per invocation: the token or topic argument
    tokens,        \* per invocation: the tokens argument
    payload,       \* per invocation: the payload argument
    i,             \* sendToMultipleDevices: the loop index
    batch,         \* sendToMultipleDevices: the current slice
    results,       \* sendToMultipleDevices: the results so far
    batchResults,  \* sendToMultipleDevices: what sendBatch handed back
    sent,          \* per invocation: its calls to the collaborator, in order
    ret,           \* per invocation: what the method handed its caller
    util           \* the latest call of an exported helper: name, input, output

vars == <<options, dryRun, op, pc, target, tokens, payload, i, batch, results,
          batchResults, sent, ret, util>>

Invocations == DOMAIN pc

OptionsSet == {EmptyObject, [dryRun |-> TRUE], [dryRun |-> FALSE]}

InitFor(ids) ==
    /\ options \in OptionsSet
    /\ dryRun = ctorDryRun(options)
    /\ op = [c \in ids |-> "none"]
    /\ pc = [c \in ids |-> "idle"]
    /\ target = [c \in ids |-> ""]
    /\ tokens = [c \in ids |-> <<>>]
    /\ payload = [c \in ids |-> EmptyObject]
    /\ i = [c \in ids |-> 0]
    /\ batch = [c \in ids |-> <<>>]
    /\ results = [c \in ids |-> <<>>]
    /\ batchResults = [c \in ids |-> None]
    /\ sent = [c \in ids |-> <<>>]
    /\ ret = [c \in ids |-> None]
    /\ util = None

Init == InitFor({1})

\* a caller may invoke a method when it is not awaiting one
Ready(c) == pc[c] = "idle"

\* the frame of a fresh invocation of a single-recipient method
Begin(c, method, tgt, p, call) ==
    /\ op' = [op EXCEPT ![c] = method]
    /\ pc' = [pc EXCEPT ![c] = "send"]
    /\ target' = [target EXCEPT ![c] = tgt]
    /\ payload' = [payload EXCEPT ![c] = p]
    /\ tokens' = [tokens EXCEPT ![c] = <<>>]
    /\ i' = [i EXCEPT ![c] = 0]
    /\ batch' = [batch EXCEPT ![c] = <<>>]
    /\ results' = [results EXCEPT ![c] = <<>>]
    /\ batchResults' = [batchResults EXCEPT ![c] = None]
    /\ sent' = [sent EXCEPT ![c] = <<call>>]
    /\ ret' = [ret EXCEPT ![c] = None]
    /\ UNCHANGED <<util, options, dryRun>>

\* the pending messaging.send of the invocation settles and the method returns
Finish(c, reply, completion) ==
    /\ sent' = [sent EXCEPT ![c][Len(sent[c])].reply = reply]
    /\ ret' = [ret EXCEPT ![c] = Some(completion)]
    /\ pc' = [pc EXCEPT ![c] = "done"]
    /\ UNCHANGED <<util, options, dryRun, op, target, tokens, payload, i, batch, results,
                   batchResults>>

SendCall(message, flag) ==
    [method |-> "send", message |-> message, dryRun |-> flag, reply |-> Pending]

SendEachCall(messages, flag) ==
    [method |-> "sendEach", messages |-> messages, dryRun |-> flag, reply |-> Pending]

\* ---- what callers pass and the collaborator answers
\* several invocations share the instance
Shared == Cardinality(Invocations) > 1

\* With one invocation at a time the arguments and answers range over the
\* full sets; with invocations sharing the instance they range over a few of
\* each kind.
TokenChoices == IF Shared THEN {"tokA"} ELSE Tokens

TopicChoices == IF Shared THEN {"promotions"} ELSE Topics

PayloadChoices == IF Shared THEN {[title |-> "Hello", body |-> "World"]} ELSE Payloads

ListChoices ==
    IF Shared
    THEN {<<>>, <<"tokA", "">>, LargeList(batchSize + 1)}
    ELSE TokenLists

MessageIdChoices == IF Shared THEN {"projects/zan/messages/0:1"} ELSE MessageIds

SharedErrors ==
    {None, Some([code |-> "messaging/invalid-registration-token", message |-> "Invalid token"])}

ErrorChoices == IF Shared THEN SharedErrors ELSE RawErrors

SharedItems ==
    {[success |-> TRUE, messageId |-> "projects/zan/messages/0:1"],
     [success |-> FALSE,
      error |-> [code |-> "messaging/registration-token-not-registered",
                 message |-> "Not registered"]]}

ResponseChoices(messages) ==
    IF Shared
    THEN IF Len(messages) <= 2
         THEN {[responses |-> rs] : rs \in SeqsOfLen(SharedItems, Len(messages))}
         ELSE {[responses |-> [j \in 1..Len(messages) |->
                                  LargeItem("someFail", j, messages[j])]]}
    ELSE SendEachResponses(messages)

RejectionChoices(n) ==
    IF Shared THEN {TransportError} ELSE SendEachErrors(n)

\* ---- sendToDevice
SendToDevice(c) ==
    /\ Ready(c)
    /\ \E token \in TokenChoices, p \in PayloadChoices :
          Begin(c, "sendToDevice", token, p, SendCall(buildMessage(token, p), dryRun))

SendToDeviceResolve(c) ==
    /\ op[c] = "sendToDevice" /\ pc[c] = "send"
    /\ \E messageId \in MessageIdChoices :
          Finish(c, Resolved(messageId), sendToDeviceTry(messageId))

SendToDeviceReject(c) ==
    /\ op[c] = "sendToDevice" /\ pc[c] = "send"
    /\ \E error \in ErrorChoices :
          Finish(c, Rejected(error), sendToDeviceCatch(error, target[c]))

\* ---- sendToTopic
SendToTopic(c) ==
    /\ Ready(c)
    /\ \E topic \in TopicChoices, p \in PayloadChoices :
          Begin(c, "sendToTopic", topic, p, SendCall(buildTopicMessage(topic, p), dryRun))

SendToTopicResolve(c) ==
    /\ op[c] = "sendToTopic" /\ pc[c] = "send"
    /\ \E messageId \in MessageIdChoices :
          Finish(c, Resolved(messageId), sendToTopicTry(messageId))

SendToTopicReject(c) ==
    /\ op[c] = "sendToTopic" /\ pc[c] = "send"
    /\ \E error \in ErrorChoices :
          Finish(c, Rejected(error), sendToTopicCatch(error, target[c]))

\* ---- validateToken
\* validateToken passing the configured flag
validateDryRun_configured == dryRun

\* the flag validateToken passes to messaging.send
validateDryRun == TRUE

validateMessage(token) == [token |-> token, notification |-> [title |-> "Test", body |-> "Test"]]

ValidateToken(c) ==
    /\ Ready(c)
    /\ \E token \in TokenChoices :
          Begin(c, "validateToken", token, EmptyObject,
                SendCall(validateMessage(token), validateDryRun))

ValidateTokenResolve(c) ==
    /\ op[c] = "validateToken" /\ pc[c] = "send"
    /\ \E messageId \in MessageIdChoices :
          Finish(c, Resolved(messageId), Returned(TRUE))

ValidateTokenReject(c) ==
    /\ op[c] = "validateToken" /\ pc[c] = "send"
    /\ \E error \in ErrorChoices :
          Finish(c, Rejected(error), validateTokenCatch(error))

\* ---- sendToMultipleDevices
\* i += batchSize, moved back by one
nextIndex_overlap(idx) == idx + batchSize - 1

\* a loop header that forgets the increment
nextIndex_stuck(idx) == idx

\* i += batchSize
nextIndex(idx) == idx + batchSize

\* results.push(...) into one array shared by all invocations
pushResults_shared(c, values) == [d \in DOMAIN results |-> results[d] \o values]

\* results.push(...batchResults), results being a local of the invocation
pushResults(c, values) == [results EXCEPT ![c] = results[c] \o values]

\* a loop that starts the following chunk's call without awaiting this one
Loop_fireAhead(c, idx, res, log) ==
    IF idx < Len(tokens'[c])
    THEN LET slice == Slice(tokens'[c], idx, idx + batchSize)
             messages == [k \in 1..Len(slice) |-> buildMessage(slice[k], payload'[c])]
             ahead == Slice(tokens'[c], idx + batchSize, idx + 2 * batchSize)
             aheadMessages == [k \in 1..Len(ahead) |-> buildMessage(ahead[k], payload'[c])]
             first == Append(log, SendEachCall(messages, dryRun))
         IN  /\ batch' = [batch EXCEPT ![c] = slice]
             /\ sent' = [sent EXCEPT ![c] =
                           IF ahead = <<>> THEN first
                           ELSE Append(first, SendEachCall(aheadMessages, dryRun))]
             /\ pc' = [pc EXCEPT ![c] = "sendEach"]
             /\ ret' = [ret EXCEPT ![c] = None]
    ELSE /\ batch' = [batch EXCEPT ![c] = <<>>]
         /\ sent' = [sent EXCEPT ![c] = log]
         /\ pc' = [pc EXCEPT ![c] = "done"]
         /\ ret' = [ret EXCEPT ![c] = Some(Returned(batchResult(res)))]

\* the for loop from index idx on, with res collected and log sent so far:
\* the next sendBatch call up to its await, or the return after the loop
Loop(c, idx, res, log) ==
    IF idx < Len(tokens'[c])
    THEN LET slice == Slice(tokens'[c], idx, idx + batchSize)
             messages == [k \in 1..Len(slice) |-> buildMessage(slice[k], payload'[c])]
         IN  /\ batch' = [batch EXCEPT ![c] = slice]
             /\ sent' = [sent EXCEPT ![c] = Append(log, SendEachCall(messages, dryRun))]
             /\ pc' = [pc EXCEPT ![c] = "sendEach"]
             /\ ret' = [ret EXCEPT ![c] = None]
    ELSE /\ batch' = [batch EXCEPT ![c] = <<>>]
         /\ sent' = [sent EXCEPT ![c] = log]
         /\ pc' = [pc EXCEPT ![c] = "done"]
         /\ ret' = [ret EXCEPT ![c] = Some(Returned(batchResult(res)))]

SendToMultipleDevices(c) ==
    /\ Ready(c)
    /\ \E list \in ListChoices, p \in PayloadChoices :
          /\ op' = [op EXCEPT ![c] = "sendToMultipleDevices"]
          /\ target' = [target EXCEPT ![c] = ""]
          /\ tokens' = [tokens EXCEPT ![c] = list]
          /\ payload' = [payload EXCEPT ![c] = p]
          /\ i' = [i EXCEPT ![c] = 0]
          /\ results' = [results EXCEPT ![c] = <<>>]
          /\ batchResults' = [batchResults EXCEPT ![c] = None]
          /\ IF Len(list) = 0  \* tokens.length === 0
             THEN /\ batch' = [batch EXCEPT ![c] = <<>>]
                  /\ sent' = [sent EXCEPT ![c] = <<>>]
                  /\ pc' = [pc EXCEPT ![c] = "done"]
                  /\ ret' = [ret EXCEPT ![c] = Some(Returned(emptyBatchResult))]
             ELSE Loop(c, 0, <<>>, <<>>)
          /\ UNCHANGED <<util, options, dryRun>>

\* the pending messaging.sendEach settles and sendBatch hands back its results
SendBatchDone(c, reply, completion) ==
    /\ sent' = [sent EXCEPT ![c][Len(sent[c])].reply = reply]
    /\ batchResults' = [batchResults EXCEPT ![c] = Some(completion)]
    /\ pc' = [pc EXCEPT ![c] = "batch"]
    /\ UNCHANGED <<util, options, dryRun, op, target, tokens, payload, i, batch, results, ret>>

SendEachResolve(c) ==
    /\ op[c] = "sendToMultipleDevices" /\ pc[c] = "sendEach"
    /\ \E response \in ResponseChoices(sent[c][Len(sent[c])].messages) :
          SendBatchDone(c, Resolved(response), sendBatchTry(response, batch[c]))

SendEachReject(c) ==
    /\ op[c] = "sendToMultipleDevices" /\ pc[c] = "sendEach"
    /\ \E error \in RejectionChoices(Len(batch[c])) :
          SendBatchDone(c, Rejected(error), sendBatchCatch(error, batch[c]))

\* sendToMultipleDevices resumes after await this.sendBatch(...): push the
\* batch results, advance the index, go round the loop
BatchContinue(c) ==
    /\ op[c] = "sendToMultipleDevices" /\ pc[c] = "batch"
    /\ LET completion == batchResults[c][1]
       IN  IF completion.kind = "throw"
           THEN /\ ret' = [ret EXCEPT ![c] = Some(completion)]
                /\ pc' = [pc EXCEPT ![c] = "done"]
                /\ UNCHANGED <<i, results, batch, sent, tokens, payload>>
           ELSE /\ results' = pushResults(c, completion.value)
                /\ i' = [i EXCEPT ![c] = nextIndex(i[c])]
                /\ UNCHANGED <<tokens, payload>>
                /\ Loop(c, i'[c], results'[c], sent[c])
    /\ batchResults' = [batchResults EXCEPT ![c] = None]
    /\ UNCHANGED <<util, options, dryRun, op, target>>

\* the caller's await takes the result; the invocation's frame is gone
Settle(c) ==
    /\ pc[c] = "done"
    /\ op' = [op EXCEPT ![c] = "none"]
    /\ pc' = [pc EXCEPT ![c] = "idle"]
    /\ target' = [target EXCEPT ![c] = ""]
    /\ tokens' = [tokens EXCEPT ![c] = <<>>]
    /\ payload' = [payload EXCEPT ![c] = EmptyObject]
    /\ i' = [i EXCEPT ![c] = 0]
    /\ batch' = [batch EXCEPT ![c] = <<>>]
    /\ results' = [results EXCEPT ![c] = <<>>]
    /\ batchResults' = [batchResults EXCEPT ![c] = None]
    /\ sent' = [sent EXCEPT ![c] = <<>>]
    /\ ret' = [ret EXCEPT ![c] = None]
    /\ UNCHANGED <<util, options, dryRun>>

Next ==
    \/ \E c \in Invocations : SendToDevice(c)
    \/ \E c \in Invocations : SendToDeviceResolve(c)
    \/ \E c \in Invocations : SendToDeviceReject(c)
    \/ \E c \in Invocations : SendToTopic(c)
    \/ \E c \in Invocations : SendToTopicResolve(c)
    \/ \E c \in Invocations : SendToTopicReject(c)
    \/ \E c \in Invocations : ValidateToken(c)
    \/ \E c \in Invocations : ValidateTokenResolve(c)
    \/ \E c \in Invocations : ValidateTokenReject(c)
    \/ \E c \in Invocations : SendToMultipleDevices(c)
    \/ \E c \in Invocations : SendEachResolve(c)
    \/ \E c \in Invocations : SendEachReject(c)
    \/ \E c \in Invocations : BatchContinue(c)
    \/ \E c \in Invocations : Settle(c)

Spec == Init /\ [][Next]_vars

\* two callers use the one instance at the same time
SharedInit == InitFor({1, 2})

SharedSpec == SharedInit /\ [][Next]_vars

\* ------------------------------------------------- formatters and validators
formatOrderNotification_nullish(data) ==
    LET type == data.type
        orderId == data.orderId
        orderNumber == Get(data, "orderNumber")
        named == IF orderNumber = None THEN "#" \o orderId ELSE orderNumber[1]
        titles == [x \in {"order.placed", "order.delivered", "order.canceled"} |->
                      CASE x = "order.placed" -> "Order Confirmed"
                        [] x = "order.delivered" -> "Order Delivered"
                        [] x = "order.canceled" -> "Order Canceled"]
        bodies == [x \in {"order.placed", "order.delivered", "order.canceled"} |->
                      CASE x = "order.placed" -> "Your order " \o named \o " has been confirmed!"
                        [] x = "order.delivered" -> "Your order " \o named \o " has been delivered!"
                        [] x = "order.canceled" -> "Your order " \o named \o " has been canceled."]
    IN  [title |-> titles[type],
         body |-> bodies[type],
         data |-> Merge([type |-> type, orderId |-> orderId],
                        SpreadIf("orderNumber", orderNumber)),
         clickAction |-> "/orders/" \o orderId,
         priority |-> IF type = "order.placed" THEN "high" ELSE "normal"]

\* formatOrderNotification; the titles are given without their leading emoji
formatOrderNotification(data) ==
    LET type == data.type
        orderId == data.orderId
        orderNumber == Get(data, "orderNumber")
        named == OrElse(orderNumber, "#" \o orderId)
        titles == [x \in {"order.placed", "order.delivered", "order.canceled"} |->
                      CASE x = "order.placed" -> "Order Confirmed"
                        [] x = "order.delivered" -> "Order Delivered"
                        [] x = "order.canceled" -> "Order Canceled"]
        bodies == [x \in {"order.placed", "order.delivered", "order.canceled"} |->
                      CASE x = "order.placed" -> "Your order " \o named \o " has been confirmed!"
                        [] x = "order.delivered" -> "Your order " \o named \o " has been delivered!"
                        [] x = "order.canceled" -> "Your order " \o named \o " has been canceled."]
    IN  [title |-> titles[type],
         body |-> bodies[type],
         data |-> Merge([type |-> type, orderId |-> orderId],
                        SpreadIf("orderNumber", orderNumber)),
         clickAction |-> "/orders/" \o orderId,
         priority |-> IF type = "order.placed" THEN "high" ELSE "normal"]

\* A token handed to validateFCMToken is the sequence of its UTF-16 code
\* units, so that its length is token.length.
\* /^[a-zA-Z0-9_:-]+$/ : a-z, A-Z, 0-9, '_', ':' and '-'
validTokenRegex(token) ==
    /\ Len(token) >= 1
    /\ \A j \in 1..Len(token) :
          \/ token[j] \in 97..122
          \/ token[j] \in 65..90
          \/ token[j] \in 48..57
          \/ token[j] \in {95, 58, 45}

\* a length window that shuts out both of its ends
validateFCMToken_exclusive(token) ==
    IF Len(token) = 0 THEN FALSE
    ELSE IF Len(token) <= 140 \/ Len(token) >= 200 THEN FALSE
    ELSE validTokenRegex(token)

\* validateFCMToken, for string arguments
validateFCMToken(token) ==
    IF Len(token) = 0 THEN FALSE
    ELSE IF Len(token) < 140 \/ Len(token) > 200 THEN FALSE
    ELSE validTokenRegex(token)

OrderTypes == {"order.placed", "order.delivered", "order.canceled"}

OrderIds == {"123", "order_01HZX", ""}

OrderNumbers == {"1001", "", "ZAN-2024-17"}

\* the OrderNotification values: orderNumber given or not
OrderEvents ==
    {[type |-> t, orderId |-> id] : t \in OrderTypes, id \in OrderIds}
    \cup {[type |-> t, orderId |-> id, orderNumber |-> nr] :
             t \in OrderTypes, id \in OrderIds, nr \in OrderNumbers}

\* lengths on and around the ends of the window
TokenLengths == {0, 1, 139, 140, 141, 152, 163, 199, 200, 201, 260}

\* a z A Z 0 9 _ : - and some more letters and digits
GoodUnits == <<97, 122, 65, 90, 48, 57, 95, 58, 45, 109, 77, 53>>

\* the neighbours of the ranges ` { @ [ / ; and . space newline e-acute and
\* half of a surrogate pair
BadUnits == {96, 123, 64, 91, 47, 59, 46, 32, 10, 233, 55357}

GoodToken(n) == [j \in 1..n |-> GoodUnits[((j - 1) % Len(GoodUnits)) + 1]]

\* the good token of length n with unit u at place at
SpoiltToken(n, at, u) == [j \in 1..n |-> IF j = at THEN u ELSE GoodToken(n)[j]]

TokenStrings ==
    {GoodToken(n) : n \in TokenLengths}
    \cup {SpoiltToken(n, at, u) :
             n \in TokenLengths \ {0}, at \in {1, 70, 140, 200}, u \in BadUnits}

serviceVars == <<options, dryRun, op, pc, target, tokens, payload, i, batch, results,
                 batchResults, sent, ret>>

FormatOrderNotification ==
    /\ \E data \in OrderEvents :
          util' = Some([fn |-> "formatOrderNotification", input |-> data,
                        output |-> formatOrderNotification(data)])
    /\ UNCHANGED serviceVars

ValidateFCMToken ==
    /\ \E token \in TokenStrings :
          util' = Some([fn |-> "validateFCMToken", input |-> token,
                        output |-> validateFCMToken(token)])
    /\ UNCHANGED serviceVars

UtilNext ==
    \/ FormatOrderNotification
    \/ ValidateFCMToken

UtilSpec == Init /\ [][UtilNext]_vars

\* ------------------------------------------------------------------ claims
Done(c, method) == pc[c] = "done" /\ op[c] = method

\* the completion handed to the caller of a finished invocation
Outcome(c) == ret[c][1]

DoneBatch(c) ==
    Done(c, "sendToMultipleDevices") /\ Outcome(c).kind = "return"

\* position idx of the recipient list went out in call ChunkOf(idx), at
\* place PlaceOf(idx) of that call
ChunkOf(idx) == ((idx - 1) \div 500) + 1

PlaceOf(idx) == ((idx - 1) % 500) + 1

IsResolved(call) == call.reply.kind = "resolved"

IsRejected(call) == call.reply.kind = "rejected"

HasFailure(rs) == \E j \in 1..Len(rs) : ~rs[j].success

HasSuccess(rs) == \E j \in 1..Len(rs) : rs[j].success

\* the code and message an error value reports, when it reports one
ReportsCode(error) ==
    error # None /\ "code" \in DOMAIN error[1] /\ error[1].code # ""

ReportsMessage(error) ==
    error # None /\ "message" \in DOMAIN error[1] /\ error[1].message # ""

\* result r is the outcome the collaborator reported in item
IsReported(r, item) ==
    /\ r.success = item.success
    /\ item.success => "messageId" \in DOMAIN r /\ r.messageId = item.messageId
    /\ ~item.success =>
          /\ "error" \in DOMAIN r
          /\ ReportsCode(Get(item, "error")) => r.error.code = item.error.code
          /\ ReportsMessage(Get(item, "error")) => r.error.message = item.error.message

\* C1: the BatchResult of sendToMultipleDevices has one result per recipient
\* and successCount + failureCount equal to the number of recipients, whatever
\* the collaborator answered (item successes, item failures, rejected chunks).
C1_ResultCountAligned ==
    \A c \in Invocations :
        Done(c, "sendToMultipleDevices") =>
            /\ Outcome(c).kind = "return"
            /\ Len(Outcome(c).value.results) = Len(tokens[c])
            /\ Outcome(c).value.successCount >= 0
            /\ Outcome(c).value.failureCount >= 0
            /\ Outcome(c).value.successCount + Outcome(c).value.failureCount = Len(tokens[c])

\* a three-chunk call with a rejected chunk and a resolved chunk of mixed items
C1_Witness ==
    \E c \in Invocations :
        /\ DoneBatch(c)
        /\ Len(tokens[c]) > 1000
        /\ \E k \in 1..Len(sent[c]) : IsRejected(sent[c][k])
        /\ \E k \in 1..Len(sent[c]) :
              /\ IsResolved(sent[c][k])
              /\ HasFailure(sent[c][k].reply.value.responses)
              /\ HasSuccess(sent[c][k].reply.value.responses)
        /\ Outcome(c).value.successCount > 0
        /\ Outcome(c).value.failureCount > 500

\* C2: sendToMultipleDevices of an empty list returns
\* {successCount: 0, failureCount: 0, results: []} and calls neither send nor
\* sendEach.
C2_EmptyListShortCircuit ==
    \A c \in Invocations :
        (Done(c, "sendToMultipleDevices") /\ Len(tokens[c]) = 0) =>
            /\ Outcome(c).kind = "return"
            /\ Outcome(c).value.successCount = 0
            /\ Outcome(c).value.failureCount = 0
            /\ Len(Outcome(c).value.results) = 0
            /\ DOMAIN Outcome(c).value = {"successCount", "failureCount", "results"}
            /\ sent[c] = <<>>

C2_Witness ==
    \E c \in Invocations :
        Done(c, "sendToMultipleDevices") /\ Len(tokens[c]) = 0 /\ ret[c] # None

\* C3: for a non-empty list of n recipients sendToMultipleDevices makes exactly
\* ceil(n / 500) sendEach calls, call k carries the recipients
\* 500(k-1)+1 .. min(500k, n) in order, and results[idx] is the outcome the
\* collaborator reported for recipient idx.
C3_ChunkingKeepsOrder ==
    \A c \in Invocations :
        (DoneBatch(c) /\ Len(tokens[c]) > 0) =>
            LET n == Len(tokens[c])
                rs == Outcome(c).value.results
            IN  /\ Len(sent[c]) = (n + 499) \div 500
                /\ \A k \in 1..Len(sent[c]) :
                      /\ sent[c][k].method = "sendEach"
                      /\ Len(sent[c][k].messages) <= 500
                      /\ Len(sent[c][k].messages) = Min(500, n - 500 * (k - 1))
                      /\ \A j \in 1..Len(sent[c][k].messages) :
                            sent[c][k].messages[j].token = tokens[c][500 * (k - 1) + j]
                /\ Len(rs) = n
                /\ \A idx \in 1..n :
                      LET call == sent[c][ChunkOf(idx)]
                      IN  IF IsResolved(call)
                          THEN IsReported(rs[idx], call.reply.value.responses[PlaceOf(idx)])
                          ELSE IsRejected(call) /\ ~rs[idx].success

\* a list of more than 1000 recipients, answered chunk by chunk with mixed items
C3_Witness ==
    \E c \in Invocations :
        /\ DoneBatch(c)
        /\ Len(tokens[c]) = 1001
        /\ Len(sent[c]) = 3
        /\ \A k \in 1..Len(sent[c]) :
              /\ IsResolved(sent[c][k])
              /\ k < 3 => HasFailure(sent[c][k].reply.value.responses)

\* the positions of the recipient list that went out in call k
PositionsOf(k, n) == {idx \in 1..n : ChunkOf(idx) = k}

\* C4: when the sendEach call of a chunk is rejected, every position of that
\* chunk is a failed result carrying one and the same code, the code of the
\* rejection ('unknown' when it has none), and the positions of every other
\* chunk hold what the collaborator reported for them.
C4_ChunkFailureIsolated ==
    \A c \in Invocations :
        (DoneBatch(c) /\ \E k \in 1..Len(sent[c]) : IsRejected(sent[c][k])) =>
            LET n == Len(tokens[c])
                rs == Outcome(c).value.results
            IN  /\ Len(rs) = n
                /\ \A k \in 1..Len(sent[c]) :
                      IF IsRejected(sent[c][k])
                      THEN /\ PositionsOf(k, n) # {}
                           /\ \A idx \in PositionsOf(k, n) :
                                 /\ ~rs[idx].success
                                 /\ "error" \in DOMAIN rs[idx]
                                 /\ rs[idx].error.code =
                                       IF ReportsCode(sent[c][k].reply.error)
                                       THEN sent[c][k].reply.error[1].code
                                       ELSE "unknown"
                      ELSE \A idx \in PositionsOf(k, n) :
                              IsReported(rs[idx],
                                         sent[c][k].reply.value.responses[PlaceOf(idx)])

\* three chunks: the middle one rejected with a coded error, the first and
\* the last resolved with successes and failures
C4_Witness ==
    \E c \in Invocations :
        /\ DoneBatch(c)
        /\ Len(sent[c]) = 3
        /\ IsRejected(sent[c][2]) /\ ReportsCode(sent[c][2].reply.error)
        /\ IsResolved(sent[c][1]) /\ HasFailure(sent[c][1].reply.value.responses)
        /\ IsResolved(sent[c][3]) /\ HasSuccess(sent[c][3].reply.value.responses)
        /\ HasSuccess(Outcome(c).value.results)

\* C5: sendToDevice, sendToMultipleDevices and sendToTopic return and never
\* raise; a rejected collaborator call, with or without code and message,
\* shows as success = false for the recipients of that call.
C5_NeverRaises ==
    \A c \in Invocations :
        /\ (pc[c] = "done" /\ op[c] \in {"sendToDevice", "sendToTopic",
                                         "sendToMultipleDevices"}) =>
              Outcome(c).kind = "return"
        /\ ((Done(c, "sendToDevice") \/ Done(c, "sendToTopic")) /\ IsRejected(sent[c][1])) =>
              (Outcome(c).kind = "return" /\ ~Outcome(c).value.success)
        /\ Done(c, "sendToMultipleDevices") =>
              /\ Outcome(c).kind = "return"
              /\ \A k \in 1..Len(sent[c]) :
                    IsRejected(sent[c][k]) =>
                        \A idx \in PositionsOf(k, Len(tokens[c])) :
                            /\ idx <= Len(Outcome(c).value.results)
                            /\ ~Outcome(c).value.results[idx].success

\* sendToDevice whose send was rejected with no error value at all
C5_Witness ==
    \E c \in Invocations :
        /\ Done(c, "sendToDevice")
        /\ IsRejected(sent[c][1]) /\ sent[c][1].reply.error = None
        /\ Outcome(c).kind = "return"

\* exactly one of messageId and error, according to success
ExactlyOne(r) ==
    /\ ("messageId" \in DOMAIN r) <=> r.success
    /\ ("error" \in DOMAIN r) <=> ~r.success

\* C6: every SendResult returned by sendToDevice or sendToTopic, or held in
\* the results of sendToMultipleDevices, has messageId iff success and error
\* iff not success.
C6_ExactlyOneOfIdAndError ==
    \A c \in Invocations :
        /\ ((Done(c, "sendToDevice") \/ Done(c, "sendToTopic"))
               /\ Outcome(c).kind = "return") => ExactlyOne(Outcome(c).value)
        /\ DoneBatch(c) =>
              \A idx \in 1..Len(Outcome(c).value.results) :
                  ExactlyOne(Outcome(c).value.results[idx])
        /\ \A idx \in 1..Len(results[c]) : ExactlyOne(results[c][idx])

\* a batch with a success next to an item that failed without an error value
C6_Witness ==
    \E c \in Invocations :
        /\ DoneBatch(c)
        /\ HasSuccess(Outcome(c).value.results)
        /\ \E k \in 1..Len(sent[c]) :
              /\ IsResolved(sent[c][k])
              /\ \E j \in 1..Len(sent[c][k].reply.value.responses) :
                    LET item == sent[c][k].reply.value.responses[j]
                    IN  ~item.success /\ "error" \notin DOMAIN item

\* failed result r names recipient t
NamesToken(r, t) == "token" \in DOMAIN r.error /\ r.error.token = t

\* C7: a failed sendToDevice(t, P) has error.token = t, and every failed
\* results[idx] of sendToMultipleDevices(L, P) has error.token = L[idx], for
\* failed items and for rejected chunks, for every token string.
C7_ErrorNamesRecipient ==
    \A c \in Invocations :
        /\ (Done(c, "sendToDevice") /\ ~Outcome(c).value.success) =>
              NamesToken(Outcome(c).value, target[c])
        /\ DoneBatch(c) =>
              \A idx \in 1..Len(Outcome(c).value.results) :
                  ~Outcome(c).value.results[idx].success =>
                      NamesToken(Outcome(c).value.results[idx], tokens[c][idx])

\* C8: a failed SendResult of sendToTopic has no token on its error.
C8_TopicErrorHasNoToken ==
    \A c \in Invocations :
        (Done(c, "sendToTopic") /\ Outcome(c).kind = "return"
            /\ ~Outcome(c).value.success) =>
                /\ "error" \in DOMAIN Outcome(c).value
                /\ "token" \notin DOMAIN Outcome(c).value.error

C8_Witness ==
    \E c \in Invocations :
        /\ Done(c, "sendToTopic")
        /\ IsRejected(sent[c][1])
        /\ ~Outcome(c).value.success

\* the send of validateToken failed with one of the two invalid-token codes
RejectedAsInvalid(call) ==
    /\ IsRejected(call)
    /\ call.reply.error # None
    /\ "code" \in DOMAIN call.reply.error[1]
    /\ call.reply.error[1].code \in {"messaging/invalid-registration-token",
                                     "messaging/registration-token-not-registered"}

\* C9: validateToken returns false iff its send failed with code
\* 'messaging/invalid-registration-token' or
\* 'messaging/registration-token-not-registered'; it returns true when the
\* send succeeded and for every other failure, one without a code included.
C9_ValidateToken ==
    \A c \in Invocations :
        Done(c, "validateToken") =>
            /\ Outcome(c).kind = "return"
            /\ Outcome(c).value = ~RejectedAsInvalid(sent[c][1])

C9_Witness ==
    \E c \in Invocations :
        /\ Done(c, "validateToken")
        /\ IsRejected(sent[c][1])
        /\ sent[c][1].reply.error =
              Some([code |-> "messaging/registration-token-not-registered",
                    message |-> "Not registered"])
        /\ Outcome(c).value = FALSE

\* the flag the instance was constructed with: options.dryRun, false when
\* not given
ConfiguredFlag == IF "dryRun" \in DOMAIN options THEN options.dryRun ELSE FALSE

FlagsAsConfigured ==
    /\ dryRun = ConfiguredFlag
    /\ \A c \in Invocations :
          \A k \in 1..Len(sent[c]) :
              sent[c][k].dryRun = IF op[c] = "validateToken" THEN TRUE ELSE ConfiguredFlag

\* C10: every collaborator call of sendToDevice, sendToMultipleDevices and
\* sendToTopic passes the flag fixed at construction (false when not given),
\* validateToken always passes true, and no step changes the configured flag.
C10_DryRunFlag == []FlagsAsConfigured /\ [][dryRun' = dryRun /\ options' = options]_vars

\* validateToken has called the collaborator on an instance configured
\* without dry run, after which the instance still is
C10_Witness ==
    \E c \in Invocations :
        /\ Done(c, "validateToken")
        /\ dryRun = FALSE
        /\ sent[c][1].dryRun = TRUE

\* e classifies the raw error value: code and message non-empty, the raw ones
\* when they are non-empty, the fallbacks otherwise
Classifies(e, raw) ==
    /\ e.code # "" /\ e.message # ""
    /\ e.code = IF ReportsCode(raw) THEN raw[1].code ELSE "unknown"
    /\ e.message = IF ReportsMessage(raw) THEN raw[1].message ELSE "Unknown error occurred"

\* C11: error classification is total: whatever the raw error value (none,
\* no code, no message, empty code or message), the NotificationError has a
\* non-empty code and a non-empty message, 'unknown' and 'Unknown error
\* occurred' standing in for what is missing, and a non-empty raw code and
\* message are kept unchanged.
C11_ClassificationTotal ==
    \A c \in Invocations :
        /\ ((Done(c, "sendToDevice") \/ Done(c, "sendToTopic")) /\ IsRejected(sent[c][1])) =>
              /\ "error" \in DOMAIN Outcome(c).value
              /\ Classifies(Outcome(c).value.error, sent[c][1].reply.error)
        /\ DoneBatch(c) =>
              \A idx \in 1..Len(Outcome(c).value.results) :
                  LET call == sent[c][ChunkOf(idx)]
                      r == Outcome(c).value.results[idx]
                  IN  /\ IsRejected(call) =>
                            "error" \in DOMAIN r /\ Classifies(r.error, call.reply.error)
                      /\ (IsResolved(call)
                            /\ ~call.reply.value.responses[PlaceOf(idx)].success) =>
                            /\ "error" \in DOMAIN r
                            /\ Classifies(r.error,
                                  Get(call.reply.value.responses[PlaceOf(idx)], "error"))

\* sendToDevice rejected with an error whose code and message are empty
C11_Witness ==
    \E c \in Invocations :
        /\ Done(c, "sendToDevice")
        /\ IsRejected(sent[c][1])
        /\ sent[c][1].reply.error = Some([code |-> "", message |-> ""])
        /\ Outcome(c).value.error.code = "unknown"

\* the messages an invocation of sendToTopic handed the collaborator
TopicMessages(c) ==
    IF op[c] = "sendToTopic" THEN {sent[c][k].message : k \in 1..Len(sent[c])} ELSE {}

\* C12 as claimed: the message built for a topic carries no badge and no
\* clickAction, for every payload.
C12_TopicOmitsBadgeAndClickAction ==
    \A c \in Invocations :
        \A m \in TopicMessages(c) :
            /\ "badge" \notin DOMAIN m.apns.payload.aps
            /\ "clickAction" \notin DOMAIN m.android.notification

\* message m forwards badge and clickAction of payload p: present with the
\* payload's value when the payload sets them, absent otherwise
ForwardsBadgeAndClick(m, p) ==
    /\ Get(m.apns.payload.aps, "badge") = Get(p, "badge")
    /\ Get(m.android.notification, "clickAction") = Get(p, "clickAction")

\* C12 amended: badge and clickAction are forwarded in both message shapes;
\* the topic message carries them exactly when the payload sets them, as the
\* device message does, and omits only the token and apns.fcmOptions.
C12_TopicForwardsLikeDevice ==
    \A c \in Invocations :
        /\ \A m \in TopicMessages(c) :
              /\ ForwardsBadgeAndClick(m, payload[c])
              /\ "fcmOptions" \notin DOMAIN m.apns
              /\ "token" \notin DOMAIN m
              /\ m.topic = target[c]
        /\ op[c] = "sendToDevice" =>
              \A k \in 1..Len(sent[c]) :
                  /\ ForwardsBadgeAndClick(sent[c][k].message, payload[c])
                  /\ "fcmOptions" \in DOMAIN sent[c][k].message.apns

\* a topic message built from a payload that sets badge and clickAction
C12_Witness ==
    \E c \in Invocations :
        /\ op[c] = "sendToTopic" /\ pc[c] = "send"
        /\ "badge" \in DOMAIN payload[c] /\ "clickAction" \in DOMAIN payload[c]
        /\ \E m \in TopicMessages(c) :
              /\ m.apns.payload.aps.badge = 3
              /\ m.android.notification.clickAction = "/orders/123"

\* the recipients an invocation has handed the collaborator so far, call
\* after call
RECURSIVE Submitted(_)
Submitted(log) ==
    IF log = <<>> THEN <<>>
    ELSE Submitted(SubSeq(log, 1, Len(log) - 1))
         \o [j \in 1..Len(log[Len(log)].messages) |-> log[Len(log)].messages[j].token]

\* C16: no send operation retries: sendToDevice and sendToTopic call the
\* collaborator exactly once, and in sendToMultipleDevices(L, P) every
\* position of L goes out in exactly one sendEach call, none dropped and none
\* sent again, also when the call or an item in it fails.
C16_NoRetry ==
    \A c \in Invocations :
        /\ op[c] \in {"sendToDevice", "sendToTopic"} =>
              /\ Len(sent[c]) = 1
              /\ sent[c][1].method = "send"
        /\ op[c] = "sendToMultipleDevices" =>
              LET sub == Submitted(sent[c])
              IN  /\ Len(sub) <= Len(tokens[c])
                  /\ \A j \in 1..Len(sub) : sub[j] = tokens[c][j]
                  /\ pc[c] = "done" => Len(sub) = Len(tokens[c])
                  /\ \A k \in 1..Len(sent[c]) : sent[c][k].method = "sendEach"

\* a finished call over 1001 recipients, one chunk rejected and one with failed
\* items
C16_Witness ==
    \E c \in Invocations :
        /\ DoneBatch(c)
        /\ Len(tokens[c]) = 1001
        /\ Len(Submitted(sent[c])) = 1001
        /\ IsRejected(sent[c][1])
        /\ IsResolved(sent[c][2]) /\ HasFailure(sent[c][2].reply.value.responses)

\* of the calls of one invocation only the latest can be outstanding, and
\* call k starts at recipient 500(k-1)+1
OneOutstanding ==
    \A c \in Invocations :
        \A k \in 1..Len(sent[c]) :
            /\ k < Len(sent[c]) => sent[c][k].reply.kind # "pending"
            /\ op[c] = "sendToMultipleDevices" =>
                  /\ 500 * (k - 1) < Len(tokens[c])
                  /\ sent[c][k].messages[1].token = tokens[c][500 * (k - 1) + 1]

\* a step that issues a further call finds the previous one settled
IssuesAfterSettled ==
    \A c \in Invocations :
        (Len(sent'[c]) > Len(sent[c]) /\ Len(sent[c]) > 0) =>
            /\ Len(sent'[c]) = Len(sent[c]) + 1
            /\ sent[c][Len(sent[c])].reply.kind # "pending"

\* C17: within one sendToMultipleDevices call the chunks go out in input
\* order and one at a time: the call for chunk k+1 is issued only after the
\* call for chunk k has returned or failed, so an invocation never has more
\* than one collaborator call outstanding.
C17_OneChunkAtATime == []OneOutstanding /\ [][IssuesAfterSettled]_vars

\* the second chunk's call is outstanding, the first one has failed
C17_Witness ==
    \E c \in Invocations :
        /\ op[c] = "sendToMultipleDevices" /\ pc[c] = "sendEach"
        /\ Len(sent[c]) = 2
        /\ IsRejected(sent[c][1])
        /\ sent[c][2].reply.kind = "pending"

\* -------------------------------------------------------------- liveness
\* the collaborator settles every call it was given and the event loop runs
\* every continuation that is ready
Fairness ==
    \A c \in {1, 2} :
        /\ WF_vars(c \in Invocations /\ (SendEachResolve(c) \/ SendEachReject(c)))
        /\ WF_vars(c \in Invocations /\ BatchContinue(c))

LiveSpec == SharedInit /\ [][Next]_vars /\ Fairness

\* each round of the loop moves the index on by 500 and leaves the list alone
AdvancesBy500 ==
    \A c \in Invocations :
        (op[c] = "sendToMultipleDevices" /\ pc[c] = "batch" /\ pc'[c] # "batch") =>
            /\ i'[c] = i[c] + 500
            /\ tokens'[c] = tokens[c]
            /\ pc'[c] = IF i'[c] < Len(tokens[c]) THEN "sendEach" ELSE "done"

\* C18: every sendToMultipleDevices call over a finite list returns a
\* BatchResult in the end, given that every collaborator call returns or
\* fails in the end: the loop index advances by 500 in every iteration, after
\* a resolved and after a rejected chunk alike, and the loop stops once the
\* index reaches the list length.
C18_BatchTerminates ==
    /\ \A c \in {1, 2} :
          (c \in Invocations /\ op[c] = "sendToMultipleDevices" /\ pc[c] # "done")
              ~> (c \in Invocations /\ pc[c] = "done" /\ Outcome(c).kind = "return")
    /\ [][AdvancesBy500]_vars

\* a call over 501 recipients has returned after two rounds, one of them
\* over a rejected chunk
C18_Witness ==
    \E c \in Invocations :
        /\ DoneBatch(c)
        /\ Len(tokens[c]) = 501
        /\ i[c] = 1000
        /\ \E k \in 1..Len(sent[c]) : IsRejected(sent[c][k])
        /\ \E k \in 1..Len(sent[c]) : IsResolved(sent[c][k])

\* ------------------------------------------------------------ concurrency
\* what sendBatch gives for call k of invocation c, from the recipients of
\* that call and the collaborator's answer to it
ChunkAlone(c, k) ==
    LET chunk == Slice(tokens[c], 500 * (k - 1), 500 * k)
        reply == sent[c][k].reply
    IN  IF reply.kind = "resolved"
        THEN sendBatchTry(reply.value, chunk).value
        ELSE sendBatchCatch(reply.error, chunk).value

RECURSIVE ResultsAlone(_, _)
ResultsAlone(c, k) ==
    IF k = 0 THEN <<>> ELSE ResultsAlone(c, k - 1) \o ChunkAlone(c, k)

\* the outcome of invocation c is the one its own arguments and the answers
\* to its own collaborator calls give
AsIfAlone(c) ==
    /\ Outcome(c).kind = "return"
    /\ op[c] \in {"sendToDevice", "sendToTopic", "validateToken"} =>
          /\ Len(sent[c]) = 1
          /\ sent[c][1].reply.kind # "pending"
    /\ op[c] = "sendToDevice" =>
          Outcome(c) = IF IsResolved(sent[c][1])
                       THEN sendToDeviceTry(sent[c][1].reply.value)
                       ELSE sendToDeviceCatch(sent[c][1].reply.error, target[c])
    /\ op[c] = "sendToTopic" =>
          Outcome(c) = IF IsResolved(sent[c][1])
                       THEN sendToTopicTry(sent[c][1].reply.value)
                       ELSE sendToTopicCatch(sent[c][1].reply.error, target[c])
    /\ op[c] = "validateToken" =>
          Outcome(c).value = IF IsResolved(sent[c][1]) THEN TRUE
                             ELSE validateTokenCatch(sent[c][1].reply.error).value
    /\ op[c] = "sendToMultipleDevices" =>
          /\ Len(sent[c]) = (Len(tokens[c]) + 499) \div 500
          /\ \A k \in 1..Len(sent[c]) : sent[c][k].reply.kind # "pending"
          /\ Outcome(c).value.results = ResultsAlone(c, Len(sent[c]))
          /\ Len(Outcome(c).value.results) = Len(tokens[c])
          /\ Outcome(c).value.successCount =
                Cardinality({j \in 1..Len(Outcome(c).value.results) :
                                Outcome(c).value.results[j].success})
          /\ Outcome(c).value.successCount + Outcome(c).value.failureCount = Len(tokens[c])

EveryOutcomeAsIfAlone ==
    \A c \in Invocations : pc[c] = "done" => AsIfAlone(c)

\* a step of one invocation leaves the locals of the others alone
StepsAreLocal ==
    \A c \in Invocations :
        (pc'[c] # pc[c]) =>
            \A d \in Invocations \ {c} :
                /\ pc'[d] = pc[d]
                /\ i'[d] = i[d]
                /\ Len(results'[d]) = Len(results[d])
                /\ Len(sent'[d]) = Len(sent[d])

\* C13: invocations that interleave on one instance do not disturb each
\* other: each returns what its own arguments and the answers to its own
\* collaborator calls give, no step of one touches the locals of another, and
\* the configuration set at construction is never modified.
C13_ConcurrentCallsIndependent ==
    /\ []EveryOutcomeAsIfAlone
    /\ [][StepsAreLocal]_vars
    /\ [][dryRun' = dryRun /\ options' = options]_vars

\* one two-chunk call has returned while another, over another list, has its
\* second chunk outstanding
C13_Witness ==
    /\ Shared
    /\ DoneBatch(1)
    /\ Len(sent[1]) = 2
    /\ op[2] = "sendToMultipleDevices" /\ pc[2] = "sendEach"
    /\ Len(sent[2]) = 2
    /\ IsRejected(sent[1][1]) /\ IsResolved(sent[2][1])
    /\ HasSuccess(Outcome(1).value.results)
    /\ Len(results[2]) = 500

\* ------------------------------------------------------------- utilities
Called(fn) == util # None /\ util[1].fn = fn

\* C14: formatOrderNotification names the order in the body by orderNumber
\* when it is given and non-empty and by '#' and orderId otherwise; priority
\* is 'high' exactly for 'order.placed' and 'normal' for 'order.delivered' and
\* 'order.canceled'; clickAction is '/orders/' and orderId for all three types.
C14_FormatOrder ==
    Called("formatOrderNotification") =>
        LET data == util[1].input
            out == util[1].output
            given == "orderNumber" \in DOMAIN data /\ data.orderNumber # ""
            named == IF given THEN data.orderNumber ELSE "#" \o data.orderId
        IN  /\ data.type = "order.placed" =>
                  /\ out.body = "Your order " \o named \o " has been confirmed!"
                  /\ out.priority = "high"
            /\ data.type = "order.delivered" =>
                  /\ out.body = "Your order " \o named \o " has been delivered!"
                  /\ out.priority = "normal"
            /\ data.type = "order.canceled" =>
                  /\ out.body = "Your order " \o named \o " has been canceled."
                  /\ out.priority = "normal"
            /\ out.clickAction = "/orders/" \o data.orderId

\* an order placed with an empty orderNumber falls back to '#123'
C14_Witness ==
    /\ Called("formatOrderNotification")
    /\ util[1].input = [type |-> "order.placed", orderId |-> "123", orderNumber |-> ""]
    /\ util[1].output.body = "Your order #123 has been confirmed!"

\* the code units of [A-Za-z0-9_:-]
InTokenAlphabet(u) ==
    \/ 65 <= u /\ u <= 90
    \/ 97 <= u /\ u <= 122
    \/ 48 <= u /\ u <= 57
    \/ u = 95 \/ u = 58 \/ u = 45

\* C15: validateFCMToken rejects every string shorter than 140 or longer than
\* 200 characters and every string with a character outside [A-Za-z0-9_:-],
\* and accepts every string of 140 to 200 characters made of those only.
C15_ValidateFCMToken ==
    Called("validateFCMToken") =>
        LET token == util[1].input
        IN  util[1].output =
                (/\ Len(token) >= 140
                 /\ Len(token) <= 200
                 /\ \A j \in 1..Len(token) : InTokenAlphabet(token[j]))

\* a token of exactly 200 characters of the alphabet is accepted
C15_Witness ==
    /\ Called("validateFCMToken")
    /\ Len(util[1].input) = 200
    /\ util[1].output = TRUE
====
